---------------------------- MODULE Spec2Model ----------------------------
(***************************************************************************)
(* The resilient advisory pipeline of the Linguistic Arbitrage Engine:     *)
(* the App component's session state (transcript, metric window, scenario, *)
(* cognitive state), its message handler with the live / offline branch,   *)
(* GeminiDeepThinkService.executeDeepThought (retry loop, exponential      *)
(* backoff, circuit-breaker marker), generateStrategicAnalysis (metric     *)
(* aggregation, response parsing) and measureLatency with the effect that  *)
(* schedules it every 30 s.                                                *)
(*                                                                         *)
(* Time is kept as countdowns of the pending setTimeout timers, advanced   *)
(* in steps of TimeStep milliseconds; a timer whose countdown is 0 fires   *)
(* before time advances again.  Remote calls take an arbitrary time.       *)
(***************************************************************************)
EXTENDS Integers, Sequences, FiniteSets, TLC

VARIABLES
    M,                    \* CircuitBreakerThresholds.MAX_RETRY_ATTEMPTS
    apiKey,               \* process.env.API_KEY || ''
    deepThinkServiceRef,  \* TRUE iff deepThinkServiceRef.current is a service
    isConnectionActive,   \* useVoiceStreamProcessor: the live link is open
    connecting,           \* useVoiceStreamProcessor: a connect is under way
    connectionError,      \* useVoiceStreamProcessor: error marker or NoError
    activeScenario,       \* id of the active SimulationScenarioMatrix
    entropyMetrics,       \* the metric window
    transmissionVectors,  \* the transcript
    cognitiveState,       \* CognitiveLoadState
    calls,                \* one record per handleManualTransmit invocation
    pushCount,            \* number of samples pushed so far (sample identity)
    quota,                \* what the environment may still do (model bound)
    networkLatency,       \* the displayed latency (ms), -1 when unknown
    probes,               \* one record per measure() that reached the service
    intervals,            \* the setInterval timers that are set
    lifecycle,            \* the service effect: set up or cleaned up, run count
    report                \* the generateStrategicAnalysis invocation

\* the state of the service effect and of the report generation
svcVars == <<networkLatency, probes, intervals, lifecycle, report>>

vars == <<M, apiKey, deepThinkServiceRef, isConnectionActive, connecting,
          connectionError, activeScenario, entropyMetrics,
          transmissionVectors, cognitiveState, calls, pushCount, quota,
          networkLatency, probes, intervals, lifecycle, report>>

---------------------------------------------------------------------------
(* Bounds of the model *)

\* largest MAX_RETRY_ATTEMPTS tried
MaxM == 3

\* operator messages per behaviour of Spec
MaxMsgs == 2

\* scenario changes per behaviour
MaxShifts == 1

\* live-channel transcript events per behaviour of SpecWindow
MaxPush == 22

---------------------------------------------------------------------------
(* Program constants *)

\* prev.slice(-19)
SLICE_KEEP == 19

\* setTimeout(..., 1500) of the offline branch
SIMULATED_LATENCY_MS == 1500

\* Math.pow(2, attempts) * 1000
BACKOFF_UNIT_MS == 1000

CIRCUIT_BREAKER_ACTIVATED == "CIRCUIT_BREAKER_ACTIVATED: UNABLE_TO_PROCESS_THOUGHT_PATTERN"

DATA_CORRUPTION_EMPTY_RESPONSE == "DATA_CORRUPTION_EMPTY_RESPONSE"

SYSTEM_FAILURE == "SYSTEM_FAILURE"

\* the marker App's fallback effect looks for in connectionError
CIRCUIT_BREAKER_OPEN == "CIRCUIT_BREAKER_OPEN"

NoError == "null"

---------------------------------------------------------------------------
(* Inputs *)

\* ScenarioInjectionModule.retrieveScenarioLibrary(), by id
ScenarioLibrary == <<"STANDARD-01", "HOSTILE_TAKEOVER-03">>

ScenarioIds == {ScenarioLibrary[i] : i \in 1..Len(ScenarioLibrary)}

\* what the scenario <select> may deliver: a known id or an unknown one
SelectableIds == ScenarioIds \cup {"UNKNOWN-99"}

\* texts the operator types
Texts == {"I refuse your terms", "uh fine"}

\* texts the live channel recognises
VoiceTexts == {"voice fragment"}

\* response.text of a successful generateContent: a text, or none
RemoteTexts == {"counter-move", ""}

ApiKeys == {"", "key"}

---------------------------------------------------------------------------
(* Helpers *)

RECURSIVE GCD(_, _)
GCD(a, b) == IF b = 0 THEN a ELSE GCD(b, a % b)

\* the step of the clock: every timer delay of the program is a multiple
TimeStep == GCD(SIMULATED_LATENCY_MS, BACKOFF_UNIT_MS)

RECURSIVE Pow2(_)
Pow2(n) == IF n = 0 THEN 1 ELSE 2 * Pow2(n - 1)

\* Array.prototype.slice(-n): the last n elements (all, if fewer)
SliceLast(s, n) ==
    IF Len(s) <= n THEN s ELSE SubSeq(s, Len(s) - n + 1, Len(s))

---------------------------------------------------------------------------
(* Metric window: handleTranscriptUpdate *)

\* the NegotiationEntropyMetric built from a text: the inputs of its scores
\* (the text and the scenario's target pattern) and its place in the stream
Sample(text) ==
    [text |-> text, target |-> activeScenario, ord |-> pushCount + 1]

\* a window that keeps one sample too many: slice(-20)
PushSample_KeepsTwenty(prev, sample) ==
    Append(SliceLast(prev, SLICE_KEEP + 1), sample)

\* setEntropyMetrics(prev => [...prev.slice(-19), sample])
PushSample(prev, sample) == Append(SliceLast(prev, SLICE_KEEP), sample)

\* handleTranscriptUpdate(text, isFinal): one sample pushed
TranscriptUpdate(text) ==
    /\ entropyMetrics' = PushSample(entropyMetrics, Sample(text))
    /\ pushCount' = pushCount + 1

---------------------------------------------------------------------------
(* GeminiDeepThinkService.executeDeepThought, on the record of one call *)

\* a backoff that starts at 2^0: Math.pow(2, attempts - 1) * 1000
BackoffDelay_FromOne(attempts) == Pow2(attempts - 1) * BACKOFF_UNIT_MS

\* Math.pow(2, attempts) * 1000
BackoffDelay(attempts) == Pow2(attempts) * BACKOFF_UNIT_MS

\* a return statement of executeDeepThought
Return(c, text) == [c EXCEPT !.pc = "done", !.result = text]

\* await this.ai.models.generateContent(...): one remote attempt issued
IssueRemote(c) == [c EXCEPT !.pc = "remote", !.nRemote = @ + 1]

\* while (attempts < MAX_RETRY_ATTEMPTS) { try { ... } }  /  return "SYSTEM_FAILURE"
LoopHead(c) ==
    IF c.attempts < M THEN IssueRemote(c) ELSE Return(c, SYSTEM_FAILURE)

\* a success path without the fallback: return response.text
OnResponse_NoFallback(c, text) == [c EXCEPT !.pc = "done", !.result = text]

\* return response.text || "DATA_CORRUPTION_EMPTY_RESPONSE"
OnResponse(c, text) ==
    Return(c, IF text # "" THEN text ELSE DATA_CORRUPTION_EMPTY_RESPONSE)

\* a catch block whose breaker test is off by one: attempts > MAX_RETRY_ATTEMPTS
OnError_OffByOne(c) ==
    LET a == c.attempts + 1 IN
    IF a > M
    THEN [c EXCEPT !.attempts = a, !.pc = "done",
                   !.result = CIRCUIT_BREAKER_ACTIVATED]
    ELSE [c EXCEPT !.attempts = a, !.pc = "backoff",
                   !.timer = Pow2(a) * BACKOFF_UNIT_MS, !.elapsed = 0]

\* the catch block: count the failure, open the breaker or start the backoff
OnError(c) ==
    LET a == c.attempts + 1 IN
    IF a >= M
    THEN Return([c EXCEPT !.attempts = a], CIRCUIT_BREAKER_ACTIVATED)
    ELSE [c EXCEPT !.attempts = a, !.pc = "backoff",
                   !.timer = BackoffDelay(a), !.elapsed = 0]

\* the backoff timer fired: the wait is over, back to the loop head
AfterBackoff(c) ==
    LoopHead([c EXCEPT !.waits = Append(@, c.elapsed)])

---------------------------------------------------------------------------
(* Collaborators outside the core, at their boundary *)

\* ScenarioInjectionModule.getScenarioById(id) finds a scenario
KnownScenario(id) == id \in ScenarioIds

\* ScenarioInjectionModule.processOfflineSimulation(scenarioId, inputText)
processOfflineSimulation(scenarioId, inputText) ==
    "SIM[" \o scenarioId \o "]: " \o inputText

---------------------------------------------------------------------------
(* App: transcript and message handling *)

OperatorId(i) == 2 * i - 1

SyntheticId(i) == 2 * i

\* addSyntheticResponse(payload), as the transcript it leaves
addSyntheticResponse(tv, i, payload) ==
    Append(tv, [id |-> SyntheticId(i), origin |-> "SYNTHETIC_AGENT",
                payload |-> payload])

\* a branch condition that does not look at the service:
\* isConnectionActive && !connectionError
LiveRoute_NoServiceCheck == isConnectionActive /\ connectionError = NoError

\* a branch condition that forgets the error flag:
\* isConnectionActive && deepThinkServiceRef.current
LiveRoute_IgnoresError == isConnectionActive /\ deepThinkServiceRef

\* isConnectionActive && deepThinkServiceRef.current && !connectionError
LiveRoute ==
    isConnectionActive /\ deepThinkServiceRef /\ connectionError = NoError

\* a call record whose failure counter is a field of the service, carried
\* over from the call before
NewCall_SharedAttempts(i, input, route) ==
    [msg |-> i, input |-> input, route |-> route,
     scenario |-> activeScenario, history |-> transmissionVectors,
     pc |-> "start",
     attempts |-> IF i > 1 THEN calls[i - 1].attempts ELSE 0,
     timer |-> 0, elapsed |-> 0,
     nRemote |-> 0, nSim |-> 0, waits |-> << >>, got |-> "",
     result |-> "", severed |-> FALSE]

\* the record of a handleManualTransmit invocation, before it suspends
\* (let attempts = 0 is local to the invocation of executeDeepThought)
NewCall(i, input, route) ==
    [msg |-> i, input |-> input, route |-> route,
     scenario |-> activeScenario, history |-> transmissionVectors,
     pc |-> "start", attempts |-> 0, timer |-> 0, elapsed |-> 0,
     nRemote |-> 0, nSim |-> 0, waits |-> << >>, got |-> "",
     result |-> "", severed |-> FALSE]

\* the live branch up to its first await
StartLive(i, input) == LoopHead(NewCall(i, input, "LIVE"))

\* the offline branch: setTimeout(() => {...}, 1500)
StartSim(i, input) ==
    [NewCall(i, input, "SIM") EXCEPT !.pc = "timer",
                                     !.timer = SIMULATED_LATENCY_MS]

\* handleManualTransmit up to the point where it suspends
Dispatch(i, input) ==
    IF LiveRoute THEN StartLive(i, input) ELSE StartSim(i, input)

\* handleManualTransmit(input)
handleManualTransmit(input) ==
    LET i == Len(calls) + 1
        newVector == [id |-> OperatorId(i), origin |-> "OPERATOR",
                      payload |-> input]
        c == Dispatch(i, input)
        tv == Append(transmissionVectors, newVector)
    IN  /\ quota.msgs > 0
        /\ quota' = [quota EXCEPT !.msgs = @ - 1]
        /\ TranscriptUpdate(input)
        /\ calls' = Append(calls, c)
        /\ IF c.pc = "done"
           THEN /\ transmissionVectors' = addSyntheticResponse(tv, i, c.result)
                /\ cognitiveState' = "IDLE"
           ELSE /\ transmissionVectors' = tv
                /\ cognitiveState' = "THINKING"
        /\ UNCHANGED <<svcVars, M, apiKey, deepThinkServiceRef,
                       isConnectionActive,
                       connecting, connectionError, activeScenario>>

\* a continuation that also runs the metric extraction on the reply
Resume_ExtractsReply(i, c) ==
    /\ calls' = [calls EXCEPT ![i] = c]
    /\ IF c.pc = "done"
       THEN /\ transmissionVectors' =
                   addSyntheticResponse(transmissionVectors, i, c.result)
            /\ cognitiveState' = "IDLE"
            /\ TranscriptUpdate(c.result)
       ELSE UNCHANGED <<transmissionVectors, cognitiveState, entropyMetrics,
                        pushCount>>
    /\ UNCHANGED <<svcVars, M, apiKey, deepThinkServiceRef,
                   isConnectionActive,
                   connecting, connectionError, activeScenario, quota>>

\* executeDeepThought of call i moved to c; when it returned,
\* handleManualTransmit resumes with addSyntheticResponse(response)
Resume(i, c) ==
    /\ calls' = [calls EXCEPT ![i] = c]
    /\ IF c.pc = "done"
       THEN /\ transmissionVectors' =
                   addSyntheticResponse(transmissionVectors, i, c.result)
            /\ cognitiveState' = "IDLE"
       ELSE UNCHANGED <<transmissionVectors, cognitiveState>>
    /\ UNCHANGED <<svcVars, M, apiKey, deepThinkServiceRef,
                   isConnectionActive,
                   connecting, connectionError, activeScenario,
                   entropyMetrics, pushCount, quota>>

\* the remote call of call i resolves with a response whose text is `text`
\* (kept in `got`, to compare with what the call returns)
RemoteSucceed(i, text) ==
    /\ calls[i].pc = "remote"
    /\ Resume(i, OnResponse([calls[i] EXCEPT !.got = text], text))

\* the remote call of call i rejects
RemoteFail(i) ==
    /\ calls[i].pc = "remote"
    /\ Resume(i, OnError(calls[i]))

\* the backoff timer of call i fires
BackoffFire(i) ==
    /\ calls[i].pc = "backoff"
    /\ calls[i].timer = 0
    /\ Resume(i, AfterBackoff(calls[i]))

\* a timer callback that gives no reply when the scenario is no longer
\* the one the message was sent under
SimReply_DropsStaleReply(c) ==
    IF c.scenario = activeScenario
    THEN [c EXCEPT !.pc = "done", !.nSim = @ + 1,
                   !.result = processOfflineSimulation(c.scenario, c.input)]
    ELSE [c EXCEPT !.pc = "dropped"]

\* a timer callback that reads the scenario when it runs, not the one
\* captured when the message was sent
SimReply_ReadsCurrentScenario(c) ==
    [c EXCEPT !.pc = "done", !.nSim = @ + 1,
              !.result = processOfflineSimulation(activeScenario, c.input)]

\* the body of the offline branch's timer callback
SimReply(c) ==
    [c EXCEPT !.pc = "done", !.nSim = @ + 1,
              !.result = processOfflineSimulation(c.scenario, c.input)]

\* the offline timer of call i fires (timers of equal delay fire in the
\* order they were set)
SimTimerFire(i) ==
    /\ calls[i].pc = "timer"
    /\ calls[i].timer = 0
    /\ \A j \in 1..(i - 1) : calls[j].pc # "timer"
    /\ Resume(i, SimReply(calls[i]))

\* time advances by one step: no timer is due
TimerPending(c) == c.pc \in {"backoff", "timer"}

Tick ==
    /\ \E i \in 1..Len(calls) : TimerPending(calls[i])
    /\ \A i \in 1..Len(calls) : TimerPending(calls[i]) => calls[i].timer > 0
    /\ calls' = [i \in 1..Len(calls) |->
                   IF TimerPending(calls[i])
                   THEN [calls[i] EXCEPT !.timer = @ - TimeStep,
                                         !.elapsed = @ + TimeStep]
                   ELSE calls[i]]
    /\ UNCHANGED <<svcVars, M, apiKey, deepThinkServiceRef,
                   isConnectionActive,
                   connecting, connectionError, activeScenario,
                   entropyMetrics, transmissionVectors, cognitiveState,
                   pushCount, quota>>

\* a scenario change that forgets setEntropyMetrics([])
handleScenarioChange_KeepsMetrics(newId) ==
    /\ KnownScenario(newId)
    /\ quota.shifts > 0
    /\ quota' = [quota EXCEPT !.shifts = @ - 1]
    /\ activeScenario' = newId
    /\ transmissionVectors' = << >>
    /\ UNCHANGED <<svcVars, M, apiKey, deepThinkServiceRef,
                   isConnectionActive,
                   connecting, connectionError, cognitiveState, calls,
                   pushCount, entropyMetrics>>

\* handleScenarioChange(e) with e.target.value = newId
handleScenarioChange(newId) ==
    /\ KnownScenario(newId)
    /\ quota.shifts > 0
    /\ quota' = [quota EXCEPT !.shifts = @ - 1]
    /\ activeScenario' = newId
    /\ transmissionVectors' = << >>
    /\ entropyMetrics' = << >>
    /\ UNCHANGED <<svcVars, M, apiKey, deepThinkServiceRef,
                   isConnectionActive,
                   connecting, connectionError, cognitiveState, calls,
                   pushCount>>

---------------------------------------------------------------------------
(* The live channel (useVoiceStreamProcessor) *)

\* initiateNeuralLink(): DISCONNECTED -> CONNECTING
initiateNeuralLink ==
    /\ ~isConnectionActive /\ ~connecting
    /\ connecting' = TRUE
    /\ connectionError' = NoError
    /\ UNCHANGED <<svcVars, M, apiKey, deepThinkServiceRef,
                   isConnectionActive,
                   activeScenario, entropyMetrics, transmissionVectors,
                   cognitiveState, calls, pushCount, quota>>

\* the link opens: CONNECTING -> LIVE
LinkOpened ==
    /\ connecting
    /\ connecting' = FALSE
    /\ isConnectionActive' = TRUE
    /\ UNCHANGED <<svcVars, M, apiKey, deepThinkServiceRef,
                   connectionError,
                   activeScenario, entropyMetrics, transmissionVectors,
                   cognitiveState, calls, pushCount, quota>>

\* the channel reports the breaker-open marker: -> DEGRADED; whether the
\* hook also lowers isConnectionActive is not fixed
ChannelError(stillActive) ==
    /\ connecting \/ isConnectionActive
    /\ connectionError' = CIRCUIT_BREAKER_OPEN
    /\ connecting' = FALSE
    /\ isConnectionActive' = (isConnectionActive /\ stillActive)
    /\ UNCHANGED <<svcVars, M, apiKey, deepThinkServiceRef,
                   activeScenario,
                   entropyMetrics, transmissionVectors, cognitiveState,
                   calls, pushCount, quota>>

\* severNeuralLink(): LIVE -> DISCONNECTED.  The calls in flight on the
\* live route are marked, to tell later what was pending at the disconnect.
severNeuralLink ==
    /\ isConnectionActive' = FALSE
    /\ calls' = [i \in 1..Len(calls) |->
                   IF calls[i].route = "LIVE" /\ calls[i].pc # "done"
                   THEN [calls[i] EXCEPT !.severed = TRUE]
                   ELSE calls[i]]
    /\ UNCHANGED <<svcVars, M, apiKey, deepThinkServiceRef,
                   connecting,
                   connectionError, activeScenario, entropyMetrics,
                   transmissionVectors, cognitiveState, pushCount, quota>>

\* toggleSimulationMode(): if (isConnectionActive) severNeuralLink()
toggleSimulationMode ==
    /\ isConnectionActive
    /\ severNeuralLink

\* the live channel delivers a transcript event to handleTranscriptUpdate
VoiceTranscript(text) ==
    /\ isConnectionActive
    /\ quota.voice > 0
    /\ quota' = [quota EXCEPT !.voice = @ - 1]
    /\ TranscriptUpdate(text)
    /\ UNCHANGED <<svcVars, M, apiKey, deepThinkServiceRef,
                   isConnectionActive,
                   connecting, connectionError, activeScenario,
                   transmissionVectors, cognitiveState, calls>>

\* the mode of the Mode Controller, as the routing reads it
ConnectionState ==
    IF connectionError # NoError THEN "DEGRADED"
    ELSE IF isConnectionActive THEN "LIVE"
    ELSE IF connecting THEN "CONNECTING"
    ELSE "DISCONNECTED"

---------------------------------------------------------------------------
(* GeminiDeepThinkService.generateStrategicAnalysis *)

\* the App state that the service's report and probe methods never touch
appVars == <<M, apiKey, deepThinkServiceRef, isConnectionActive, connecting,
             connectionError, activeScenario, entropyMetrics,
             transmissionVectors, cognitiveState, calls, pushCount, quota>>

\* largest metric window handed to generateStrategicAnalysis
MaxWindow == 2

\* NegotiationEntropyMetric values: confidenceScore in hundredths,
\* verbalVelocity in words per minute, hesitationMarkers as a count
MetricSamples ==
    { [confidenceScore |-> 90, verbalVelocity |-> 120, hesitationMarkers |-> 0],
      [confidenceScore |-> 40, verbalVelocity |-> 180, hesitationMarkers |-> 3],
      [confidenceScore |-> 0, verbalVelocity |-> 0, hesitationMarkers |-> 1] }

\* the metrics argument: windows of up to MaxWindow samples
Windows == UNION {[1..n -> MetricSamples] : n \in 0..MaxWindow}

\* xs.reduce((acc, x) => acc + x, 0)
RECURSIVE ReduceSum(_)
ReduceSum(xs) == IF xs = << >> THEN 0 ELSE Head(xs) + ReduceSum(Tail(xs))

\* a JavaScript number that is finite, and -Infinity
Finite(n) == [finite |-> TRUE, v |-> n]

NegInfinity == [finite |-> FALSE, v |-> 0]

\* Math.max(...xs): -Infinity when there is no argument
RECURSIVE MathMax(_)
MathMax(xs) ==
    IF xs = << >> THEN NegInfinity
    ELSE LET rest == MathMax(Tail(xs)) IN
         IF rest.finite /\ rest.v > Head(xs) THEN rest ELSE Finite(Head(xs))

\* sum / (metrics.length || 1), kept as the fraction num / den
MeanOf(xs) ==
    [num |-> ReduceSum(xs), den |-> IF Len(xs) = 0 THEN 1 ELSE Len(xs)]

\* metrics.map(m => m.confidenceScore) and the like
ConfidenceScores(metrics) ==
    [k \in 1..Len(metrics) |-> metrics[k].confidenceScore]

VerbalVelocities(metrics) ==
    [k \in 1..Len(metrics) |-> metrics[k].verbalVelocity]

HesitationMarkers(metrics) ==
    [k \in 1..Len(metrics) |-> metrics[k].hesitationMarkers]

\* 1. Pre-process Metrics for Context: avgConfidence, maxVelocity,
\* avgHesitation
Telemetry(metrics) ==
    [avgConfidence |-> MeanOf(ConfidenceScores(metrics)),
     maxVelocity |-> MathMax(VerbalVelocities(metrics)),
     avgHesitation |-> MeanOf(HesitationMarkers(metrics))]

\* the fields and grades the prompt asks for
ReportFields ==
    {"strengths", "missedOpportunities", "psychologicalTacticsDetected",
     "confidenceTrajectoryAnalysis", "trainingRecommendations",
     "overallGrade"}

Grades == {"S", "A", "B", "C", "F"}

\* JSON documents a response may carry
FullReportJson ==
    "{\"strengths\":[],\"missedOpportunities\":[],\"psychologicalTacticsDetected\":[],\"confidenceTrajectoryAnalysis\":\"steady\",\"trainingRecommendations\":[],\"overallGrade\":\"A\"}"

BadGradeJson ==
    "{\"strengths\":[],\"missedOpportunities\":[],\"psychologicalTacticsDetected\":[],\"confidenceTrajectoryAnalysis\":\"steady\",\"trainingRecommendations\":[],\"overallGrade\":\"Z\"}"

PartialReportJson == "{\"strengths\":[],\"overallGrade\":\"B\"}"

OtherShapeJson == "{\"error\":{\"code\":429}}"

EmptyObjectJson == "{}"

\* the value JSON.parse gives for each document: its keys and the value
\* under overallGrade ("" when the key is absent)
JsonDocument ==
    (FullReportJson :> [fields |-> ReportFields, overallGrade |-> "A"])
    @@ (BadGradeJson :> [fields |-> ReportFields, overallGrade |-> "Z"])
    @@ (PartialReportJson :>
           [fields |-> {"strengths", "overallGrade"}, overallGrade |-> "B"])
    @@ (OtherShapeJson :> [fields |-> {"error"}, overallGrade |-> ""])
    @@ (EmptyObjectJson :> [fields |-> {}, overallGrade |-> ""])

\* the Markdown code fence (three backquotes), with and without the
\* language tag
MD_FENCE_JSON == "[fence]json"

MD_FENCE == "[fence]"

\* response.text as the sequence of its pieces: Markdown fences, line
\* breaks, JSON documents, prose
ResponseTexts ==
    { << >>,
      <<FullReportJson>>,
      <<MD_FENCE_JSON, "\n", FullReportJson, "\n", MD_FENCE>>,
      <<EmptyObjectJson>>,
      <<OtherShapeJson>>,
      <<BadGradeJson>>,
      <<PartialReportJson>>,
      <<"I cannot produce a report for this transcript.">> }

\* the two .replace(..., '') calls: every fence with the tag, then every
\* fence that is left
StripFences(text) ==
    SelectSeq(SelectSeq(text, LAMBDA t : t # MD_FENCE_JSON),
              LAMBDA t : t # MD_FENCE)

\* .trim()
RECURSIVE TrimStart(_)
TrimStart(text) ==
    IF text # << >> /\ Head(text) = "\n" THEN TrimStart(Tail(text)) ELSE text

RECURSIVE TrimEnd(_)
TrimEnd(text) ==
    IF text # << >> /\ text[Len(text)] = "\n"
    THEN TrimEnd(SubSeq(text, 1, Len(text) - 1))
    ELSE text

Trim(text) == TrimEnd(TrimStart(text))

\* JSON.parse: the value of the one document, or a SyntaxError
JSONParse(text) ==
    IF Len(text) = 1 /\ text[1] \in DOMAIN JsonDocument
    THEN [ok |-> TRUE, value |-> JsonDocument[text[1]]]
    ELSE [ok |-> FALSE, value |-> JsonDocument[EmptyObjectJson]]

\* no report requested yet
NoReport ==
    [pc |-> "idle", metrics |-> << >>, telemetry |-> Telemetry(<< >>),
     nRemote |-> 0, rejected |-> FALSE, got |-> << >>,
     value |-> JsonDocument[EmptyObjectJson], error |-> ""]

\* generateStrategicAnalysis(history, metrics) up to its await
generateStrategicAnalysis(metrics) ==
    /\ deepThinkServiceRef
    /\ report.pc = "idle"
    /\ report' = [NoReport EXCEPT !.pc = "remote", !.metrics = metrics,
                                  !.telemetry = Telemetry(metrics),
                                  !.nRemote = 1]
    /\ UNCHANGED <<appVars, networkLatency, probes, intervals, lifecycle>>

\* let cleanJson = response.text || "{}"; sanitize; return JSON.parse(...)
\* or, from the catch block, throw new Error(...)
OnReportResponse(r, text) ==
    LET cleanJson == Trim(StripFences(IF text = << >>
                                      THEN <<EmptyObjectJson>> ELSE text))
        parsed == JSONParse(cleanJson)
    IN  IF parsed.ok
        THEN [r EXCEPT !.pc = "returned", !.got = text,
                       !.value = parsed.value]
        ELSE [r EXCEPT !.pc = "thrown", !.got = text,
                       !.error = "Failed to generate strategic report."]

\* the remote call of the report resolves with a response
ReportResponse(text) ==
    /\ report.pc = "remote"
    /\ report' = OnReportResponse(report, text)
    /\ UNCHANGED <<appVars, networkLatency, probes, intervals, lifecycle>>

\* the remote call of the report rejects: the catch block
ReportReject ==
    /\ report.pc = "remote"
    /\ report' = [report EXCEPT !.pc = "thrown", !.rejected = TRUE,
                                !.error = "Failed to generate strategic report."]
    /\ UNCHANGED <<appVars, networkLatency, probes, intervals, lifecycle>>

---------------------------------------------------------------------------
(* The service effect of App and GeminiDeepThinkService.measureLatency *)

\* setInterval(measure, 30000)
PROBE_INTERVAL_MS == 30000

\* probes started per behaviour
MaxProbes == 2

\* the elapsed time of a probe is followed up to this many time steps
MaxLatencySteps == 1

\* runs of the service effect per behaviour
MaxEffectRuns == 2

\* measureLatency up to its await: start = Date.now(), one generateContent
\* (run: the run of the effect whose measure() this is; torn: the effect
\* was cleaned up while the probe was in flight)
StartProbe(run) ==
    [run |-> run, pc |-> "remote", nRemote |-> 1, elapsed |-> 0,
     failed |-> FALSE, torn |-> FALSE, result |-> -1]

\* a catch block that reports the time spent instead of -1
OnPingError_ReturnsElapsed(p) ==
    [p EXCEPT !.pc = "done", !.failed = TRUE, !.result = p.elapsed]

\* catch (error) { console.warn(...); return -1; }
OnPingError(p) == [p EXCEPT !.pc = "done", !.failed = TRUE, !.result = -1]

\* return Date.now() - start
OnPing(p) == [p EXCEPT !.pc = "done", !.result = p.elapsed]

\* measure(): if (deepThinkServiceRef.current) { await measureLatency() ... }
measure(ps, ref, run) == IF ref THEN Append(ps, StartProbe(run)) ELSE ps

\* the remote call of probe k settles; measure() resumes with
\* setNetworkLatency(lat)
PingSettles(k, ok) ==
    /\ probes[k].pc = "remote"
    /\ LET p == IF ok THEN OnPing(probes[k]) ELSE OnPingError(probes[k]) IN
       /\ probes' = [probes EXCEPT ![k] = p]
       /\ networkLatency' = p.result
    /\ UNCHANGED <<appVars, intervals, lifecycle, report>>

\* the interval timer k fires: measure() again, and the timer is set anew
IntervalFire(k) ==
    /\ intervals[k].timer = 0
    /\ Len(probes) < MaxProbes
    /\ intervals' = [intervals EXCEPT ![k].timer = PROBE_INTERVAL_MS]
    /\ probes' = measure(probes, deepThinkServiceRef, intervals[k].run)
    /\ UNCHANGED <<appVars, networkLatency, lifecycle, report>>

\* the cleanup the effect returned: clearInterval(interval); without an API
\* key the effect returned none
EffectCleanup ==
    /\ lifecycle.active
    /\ lifecycle' = [lifecycle EXCEPT !.active = FALSE]
    /\ intervals' = IF apiKey # ""
                    THEN SelectSeq(intervals,
                                   LAMBDA t : t.run # lifecycle.runs)
                    ELSE intervals
    /\ probes' = [k \in 1..Len(probes) |->
                    IF probes[k].pc = "remote"
                    THEN [probes[k] EXCEPT !.torn = TRUE]
                    ELSE probes[k]]
    /\ UNCHANGED <<M, apiKey, deepThinkServiceRef, isConnectionActive,
                   connecting, connectionError, activeScenario,
                   entropyMetrics, transmissionVectors, cognitiveState,
                   calls, pushCount, quota, networkLatency, report>>

\* the effect runs (again): if (apiKey) { new service; measure();
\* setInterval(measure, 30000) }
EffectSetup ==
    /\ ~lifecycle.active
    /\ lifecycle.runs < MaxEffectRuns
    /\ Len(probes) < MaxProbes
    /\ lifecycle' = [active |-> TRUE, runs |-> lifecycle.runs + 1]
    /\ IF apiKey # ""
       THEN /\ deepThinkServiceRef' = TRUE
            /\ probes' = measure(probes, TRUE, lifecycle.runs + 1)
            /\ intervals' = Append(intervals,
                                   [run |-> lifecycle.runs + 1,
                                    timer |-> PROBE_INTERVAL_MS])
       ELSE UNCHANGED <<deepThinkServiceRef, probes, intervals>>
    /\ UNCHANGED <<M, apiKey, isConnectionActive, connecting,
                   connectionError, activeScenario, entropyMetrics,
                   transmissionVectors, cognitiveState, calls, pushCount,
                   quota, networkLatency, report>>

\* time advances by one step for the message path and the probes alike: no
\* timer is due; Date.now() of a probe in flight moves on
Elapse ==
    /\ \/ \E i \in 1..Len(calls) : TimerPending(calls[i])
       \/ intervals # << >>
       \/ \E k \in 1..Len(probes) : probes[k].pc = "remote"
    /\ \A i \in 1..Len(calls) : TimerPending(calls[i]) => calls[i].timer > 0
    /\ \A k \in 1..Len(intervals) : intervals[k].timer > 0
    /\ calls' = [i \in 1..Len(calls) |->
                   IF TimerPending(calls[i])
                   THEN [calls[i] EXCEPT !.timer = @ - TimeStep,
                                         !.elapsed = @ + TimeStep]
                   ELSE calls[i]]
    /\ intervals' = [k \in 1..Len(intervals) |->
                       [intervals[k] EXCEPT !.timer = @ - TimeStep]]
    /\ probes' = [k \in 1..Len(probes) |->
                    IF /\ probes[k].pc = "remote"
                       /\ probes[k].elapsed < MaxLatencySteps * TimeStep
                    THEN [probes[k] EXCEPT !.elapsed = @ + TimeStep]
                    ELSE probes[k]]
    /\ UNCHANGED <<M, apiKey, deepThinkServiceRef, isConnectionActive,
                   connecting, connectionError, activeScenario,
                   entropyMetrics, transmissionVectors, cognitiveState,
                   pushCount, quota, networkLatency, lifecycle, report>>

---------------------------------------------------------------------------
(* Specifications *)

\* the state after the first render and its effects
InitWith(q, retryLimits) ==
    /\ M \in retryLimits
    /\ apiKey \in ApiKeys
    /\ deepThinkServiceRef = (apiKey # "")
    /\ isConnectionActive = FALSE
    /\ connecting = FALSE
    /\ connectionError = NoError
    /\ activeScenario = ScenarioLibrary[1]
    /\ entropyMetrics = << >>
    /\ transmissionVectors = << >>
    /\ cognitiveState = "IDLE"
    /\ calls = << >>
    /\ pushCount = 0
    /\ quota = q
    /\ networkLatency = -1
    /\ lifecycle = [active |-> TRUE, runs |-> 1]
    /\ probes = measure(<< >>, apiKey # "", 1)
    /\ intervals = IF apiKey # ""
                   THEN <<[run |-> 1, timer |-> PROBE_INTERVAL_MS]>>
                   ELSE << >>
    /\ report = NoReport

Init ==
    InitWith([msgs |-> MaxMsgs, voice |-> 0, shifts |-> MaxShifts], 1..MaxM)

Next ==
    \/ \E t \in Texts : handleManualTransmit(t)
    \/ \E i \in 1..Len(calls) : \E t \in RemoteTexts : RemoteSucceed(i, t)
    \/ \E i \in 1..Len(calls) : RemoteFail(i)
    \/ \E i \in 1..Len(calls) : BackoffFire(i)
    \/ \E i \in 1..Len(calls) : SimTimerFire(i)
    \/ Tick
    \/ \E id \in SelectableIds : handleScenarioChange(id)
    \/ initiateNeuralLink
    \/ LinkOpened
    \/ \E b \in BOOLEAN : ChannelError(b)
    \/ toggleSimulationMode

Spec == Init /\ [][Next]_vars

\* the metric window under a long stream of live-channel transcript events
\* and scenario changes, with the channel that delivers the events (what a
\* typed message adds to the window is C10's, under Spec)
InitWindow ==
    InitWith([msgs |-> 0, voice |-> MaxPush, shifts |-> MaxShifts], {MaxM})

NextWindow ==
    \/ \E t \in VoiceTexts : VoiceTranscript(t)
    \/ \E id \in SelectableIds : handleScenarioChange(id)
    \/ initiateNeuralLink
    \/ LinkOpened
    \/ \E b \in BOOLEAN : ChannelError(b)
    \/ toggleSimulationMode

SpecWindow == InitWindow /\ [][NextWindow]_vars

\* the message path under the scheduling the platform gives it: a pending
\* remote call settles, a due timer callback runs, time passes
RemoteSettles(i) ==
    /\ i <= Len(calls)
    /\ \/ \E t \in RemoteTexts : RemoteSucceed(i, t)
       \/ RemoteFail(i)

TimerCallbackRuns(i) ==
    /\ i <= Len(calls)
    /\ (BackoffFire(i) \/ SimTimerFire(i))

Fairness ==
    /\ WF_vars(Tick)
    /\ \A i \in 1..MaxMsgs :
          WF_vars(RemoteSettles(i)) /\ WF_vars(TimerCallbackRuns(i))

\* the text of a message plays no part in whether it is answered: one text
FairTexts == {"I refuse your terms"}

NextFair ==
    \/ \E t \in FairTexts : handleManualTransmit(t)
    \/ \E i \in 1..Len(calls) : RemoteSettles(i)
    \/ \E i \in 1..Len(calls) : TimerCallbackRuns(i)
    \/ Tick
    \/ \E id \in SelectableIds : handleScenarioChange(id)
    \/ initiateNeuralLink
    \/ LinkOpened
    \/ \E b \in BOOLEAN : ChannelError(b)
    \/ toggleSimulationMode

SpecFair == Init /\ [][NextFair]_vars /\ Fairness

\* the report generation of the service, for every metric window and every
\* response
InitReport ==
    InitWith([msgs |-> 0, voice |-> 0, shifts |-> 0], 1..MaxM)

NextReport ==
    \/ \E metrics \in Windows : generateStrategicAnalysis(metrics)
    \/ \E text \in ResponseTexts : ReportResponse(text)
    \/ ReportReject

SpecReport == InitReport /\ [][NextReport]_vars

\* operator messages per behaviour of SpecProbe
MaxProbeMsgs == 1

\* the service effect and its latency probes, next to the message path
InitProbe ==
    InitWith([msgs |-> MaxProbeMsgs, voice |-> 0, shifts |-> 0], {MaxM})

NextProbe ==
    \/ \E k \in 1..Len(probes) : \E ok \in BOOLEAN : PingSettles(k, ok)
    \/ \E k \in 1..Len(intervals) : IntervalFire(k)
    \/ EffectCleanup
    \/ EffectSetup
    \/ Elapse
    \/ \E t \in FairTexts : handleManualTransmit(t)
    \/ \E i \in 1..Len(calls) : RemoteSettles(i)
    \/ \E i \in 1..Len(calls) : TimerCallbackRuns(i)
    \/ initiateNeuralLink
    \/ LinkOpened

SpecProbe == InitProbe /\ [][NextProbe]_vars

---------------------------------------------------------------------------
(* Properties of the Advisory Client *)

\* capacity of the metric window: 19 kept + 1 pushed
K == SLICE_KEEP + 1

LiveCalls == {i \in 1..Len(calls) : calls[i].route = "LIVE"}

SimCalls == {i \in 1..Len(calls) : calls[i].route = "SIM"}

\* every remote attempt this call has issued has failed
AllFailed(c) == c.attempts = c.nRemote

\* the last remote attempt of this finished call succeeded
Succeeded(c) == c.pc = "done" /\ c.attempts < c.nRemote

\* C1: when every remote call fails, executeDeepThought makes exactly M
\* attempts and then returns the breaker-open marker as its result; it never
\* makes an (M+1)-th attempt and never ends any other way.
C1_BreakerAfterMFailures ==
    \A i \in LiveCalls :
        LET c == calls[i] IN
        /\ c.nRemote <= M
        /\ (c.pc = "done" /\ AllFailed(c)) =>
               (c.nRemote = M /\ c.result = CIRCUIT_BREAKER_ACTIVATED)
        /\ c.attempts >= M =>
               (c.pc = "done" /\ c.nRemote = M
                /\ c.result = CIRCUIT_BREAKER_ACTIVATED)

\* a call whose MaxM attempts all failed has returned the marker
C1_Witness ==
    /\ M = MaxM
    /\ \E i \in LiveCalls :
          /\ calls[i].pc = "done"
          /\ calls[i].attempts = M
          /\ calls[i].nRemote = M
          /\ calls[i].result = CIRCUIT_BREAKER_ACTIVATED

\* C2 as stated: a call that fails k-1 times and then succeeds makes exactly
\* k attempts and returns the text of the successful response, never a
\* placeholder.
C2_ReturnsResponseText ==
    \A i \in LiveCalls :
        LET c == calls[i] IN
        Succeeded(c) =>
            /\ c.nRemote = c.attempts + 1
            /\ c.nRemote <= M
            /\ c.result = c.got

\* C2 amended: a call that fails k-1 times and then succeeds makes exactly
\* k attempts (k <= M) and none after; it returns the text of the successful
\* response when that text is non-empty, and the placeholder
\* DATA_CORRUPTION_EMPTY_RESPONSE when the response carries no text; it
\* never returns the breaker-open marker.
C2_ReturnsTextOrEmptyPlaceholder ==
    \A i \in LiveCalls :
        LET c == calls[i] IN
        Succeeded(c) =>
            /\ c.nRemote = c.attempts + 1
            /\ c.nRemote <= M
            /\ c.got # "" => c.result = c.got
            /\ c.got = "" => c.result = DATA_CORRUPTION_EMPTY_RESPONSE
            /\ c.result # CIRCUIT_BREAKER_ACTIVATED

\* a call failed once, succeeded on attempt 2 of M = 3 and returned the text
C2_Witness ==
    /\ M = 3
    /\ \E i \in LiveCalls :
          /\ Succeeded(calls[i])
          /\ calls[i].attempts = 1
          /\ calls[i].nRemote = 2
          /\ calls[i].got = "counter-move"
          /\ calls[i].result = "counter-move"

\* C3: the wait between failed attempt i and attempt i+1 lasts exactly 2^i
\* seconds; there is exactly one wait between two consecutive attempts, and
\* none after the M-th failure or after a success.
C3_BackoffIsTwoToTheI ==
    \A i \in LiveCalls :
        LET c == calls[i] IN
        /\ Len(c.waits) = c.nRemote - 1
        /\ \A k \in 1..Len(c.waits) : c.waits[k] = (2 ^ k) * 1000
        /\ c.pc = "backoff" =>
              /\ c.attempts \in 1..(M - 1)
              /\ c.attempts = c.nRemote
              /\ c.timer + c.elapsed = (2 ^ c.attempts) * 1000
        /\ c.pc = "done" => c.timer = 0

\* a call that failed three times waited 2 s, then 4 s, and not after that
C3_Witness ==
    \E i \in LiveCalls :
        /\ calls[i].pc = "done"
        /\ calls[i].nRemote = 3
        /\ calls[i].attempts = 3
        /\ calls[i].waits = <<2000, 4000>>

---------------------------------------------------------------------------
(* Properties of the metric window *)

\* C4: the window never holds more than K samples; it holds the newest
\* samples in insertion order with none missing in between, so a push onto a
\* full window evicts exactly the oldest; before any reset it holds
\* min(pushes, K) samples.
C4_WindowBoundedFifo ==
    /\ Len(entropyMetrics) <= K
    /\ \A j \in 1..Len(entropyMetrics) :
          entropyMetrics[j].ord = pushCount - Len(entropyMetrics) + j
    /\ quota.shifts = MaxShifts =>
          Len(entropyMetrics) = IF pushCount < K THEN pushCount ELSE K

\* K + 1 pushes and no reset: the first sample is gone, samples 2..K+1 stay
C4_Witness ==
    /\ pushCount = K + 1
    /\ quota.shifts = MaxShifts
    /\ Len(entropyMetrics) = K
    /\ entropyMetrics[1].ord = 2
    /\ entropyMetrics[K].ord = K + 1

---------------------------------------------------------------------------
(* Properties of the Mode Controller *)

Synthetic(m) == m.origin = "SYNTHETIC_AGENT"

\* the call a synthetic message answers
CallOf(m) == calls[m.id \div 2]

InFlight == {i \in 1..Len(calls) : calls[i].pc # "done"}

\* C5 as stated: while the mode is LIVE, when an advisory request returns
\* the breaker-open result the mode becomes DEGRADED and the next message
\* goes to the offline simulator.
C5_BreakerOpenDegrades ==
    [][\A i \in 1..Len(calls) :
          (/\ ConnectionState = "LIVE"
           /\ calls[i].pc # "done"
           /\ calls'[i].pc = "done"
           /\ calls'[i].result = CIRCUIT_BREAKER_ACTIVATED)
          => (ConnectionState' = "DEGRADED" /\ ~LiveRoute')]_vars

\* what holds of every call in every state: one responder per message, and
\* the simulator answers after the 1.5 s latency
C6_OneResponder ==
    /\ \A i \in LiveCalls :
          /\ calls[i].nSim = 0
          /\ calls[i].pc \in {"remote", "backoff", "done"}
          /\ calls[i].pc = "done" => calls[i].nRemote >= 1
    /\ \A i \in SimCalls :
          /\ calls[i].nRemote = 0
          /\ calls[i].pc \in {"timer", "done"}
          /\ calls[i].pc = "timer" =>
                (calls[i].nSim = 0 /\ calls[i].timer + calls[i].elapsed = 1500)
          /\ calls[i].pc = "done" =>
                /\ calls[i].nSim = 1
                /\ calls[i].elapsed = 1500
                /\ calls[i].result =
                      processOfflineSimulation(calls[i].scenario, calls[i].input)

\* what holds of every step that handles a message: the route is the live
\* one exactly when the link is active, the client exists and no error is
\* flagged, and the live request gets the transcript as context
C6_RouteChosen ==
    Len(calls') = Len(calls) + 1 =>
        LET c == calls'[Len(calls')] IN
        /\ (c.route = "LIVE") <=>
              (isConnectionActive /\ deepThinkServiceRef
               /\ connectionError = NoError)
        /\ c.route \in {"LIVE", "SIM"}
        /\ c.route = "LIVE" =>
              (c.pc = "remote" /\ c.nRemote = 1
               /\ c.history = transmissionVectors)
        /\ c.route = "SIM" =>
              (c.pc = "timer" /\ c.timer = 1500 /\ c.elapsed = 0)

\* C6: every message handled by handleManualTransmit goes to exactly one
\* responder: the Advisory Client iff the connection is active, the client
\* is initialized and no connection error is flagged; otherwise the offline
\* simulator, whose response is delivered after 1.5 s.
C6_RoutedToExactlyOne == [](C6_OneResponder) /\ [][C6_RouteChosen]_vars

\* both routes taken in one session: a live answer, and a simulated one
\* given while the link was active but flagged with an error
C6_Witness ==
    /\ isConnectionActive /\ connectionError # NoError
    /\ \E i \in LiveCalls : calls[i].pc = "done" /\ Succeeded(calls[i])
    /\ \E i \in SimCalls :
          /\ calls[i].pc = "done"
          /\ calls[i].elapsed = 1500
          /\ i > 1

\* C7: a successful scenario change leaves the transcript and the metric
\* window empty right after it, whatever was there before.
C7_ScenarioChangeResets ==
    [][quota'.shifts # quota.shifts =>
          (Len(transmissionVectors') = 0 /\ Len(entropyMetrics') = 0)]_vars

\* a scenario change done after messages and samples: both are empty
C7_Witness ==
    /\ quota.shifts < MaxShifts
    /\ Len(calls) = MaxMsgs
    /\ pushCount = MaxMsgs
    /\ \A i \in 1..Len(calls) : calls[i].pc = "done"
    /\ activeScenario # ScenarioLibrary[1]
    /\ Len(transmissionVectors) = 0
    /\ Len(entropyMetrics) = 0

\* C8 as stated: no response of a live request that was in flight at a
\* disconnect is appended to the transcript.
C8_NoResponseAfterDisconnect ==
    \A j \in 1..Len(transmissionVectors) :
        Synthetic(transmissionVectors[j]) =>
            ~CallOf(transmissionVectors[j]).severed

\* C9 as stated: no two response requests are in flight at the same time,
\* and the responses are appended in the order of their messages.
C9_SequentialAndOrdered ==
    /\ Cardinality(InFlight) <= 1
    /\ \A j, k \in 1..Len(transmissionVectors) :
          (/\ j < k
           /\ Synthetic(transmissionVectors[j])
           /\ Synthetic(transmissionVectors[k]))
          => transmissionVectors[j].id < transmissionVectors[k].id

\* C10: every user message, on either route, appends exactly one sample,
\* computed from that message; appending a synthetic reply leaves the
\* window unchanged.
C10_OneSamplePerUserMessage ==
    [][/\ Len(calls') = Len(calls) + 1 =>
             /\ pushCount' = pushCount + 1
             /\ Len(entropyMetrics') =
                    IF Len(entropyMetrics) < K
                    THEN Len(entropyMetrics) + 1 ELSE K
             /\ entropyMetrics'[Len(entropyMetrics')].text =
                    calls'[Len(calls')].input
             /\ entropyMetrics'[Len(entropyMetrics')].target = activeScenario
             /\ transmissionVectors'[Len(transmissionVectors')].payload =
                    calls'[Len(calls')].input
       /\ (/\ Len(transmissionVectors') > Len(transmissionVectors)
           /\ Synthetic(transmissionVectors'[Len(transmissionVectors')]))
          => (entropyMetrics' = entropyMetrics /\ pushCount' = pushCount)
      ]_vars

\* two messages with different texts, one answered live and one by the
\* simulator: two samples, of the two user texts, and four transcript lines
C10_Witness ==
    /\ Len(calls) = 2
    /\ calls[1].route = "LIVE" /\ calls[2].route = "SIM"
    /\ calls[1].pc = "done" /\ calls[2].pc = "done"
    /\ calls[1].input # calls[2].input
    /\ Len(transmissionVectors) = 4
    /\ Len(entropyMetrics) = 2
    /\ entropyMetrics[1].text = calls[1].input
    /\ entropyMetrics[2].text = calls[2].input

---------------------------------------------------------------------------
(* Properties of the offline route *)

\* position of the message with identifier id in the transcript tv (0 when
\* it is not there)
PositionOf(tv, id) ==
    IF \E j \in 1..Len(tv) : tv[j].id = id
    THEN CHOOSE j \in 1..Len(tv) : tv[j].id = id
    ELSE 0

\* a simulated call made the one simulator call with the scenario and the
\* text captured when its message was sent, and in the transcript its reply
\* stands once, behind its OPERATOR message
C11_OneSimulatorCall ==
    /\ \A i \in SimCalls :
          /\ calls[i].nSim <= 1
          /\ calls[i].pc = "done" =>
                /\ calls[i].nSim = 1
                /\ calls[i].result =
                      "SIM[" \o calls[i].scenario \o "]: " \o calls[i].input
    /\ \A j, k \in 1..Len(transmissionVectors) :
          /\ (transmissionVectors[j].id = transmissionVectors[k].id) => j = k
          /\ (/\ Synthetic(transmissionVectors[k])
              /\ CallOf(transmissionVectors[k]).route = "SIM"
              /\ transmissionVectors[j].id = transmissionVectors[k].id - 1)
             => (/\ j < k
                 /\ transmissionVectors[j].origin = "OPERATOR"
                 /\ transmissionVectors[j].payload =
                       CallOf(transmissionVectors[k]).input)

\* the step that sends a message on the offline route appends the OPERATOR
\* message with its text and captures (s.id, t); the step that ends a
\* simulated call appends one SYNTHETIC_AGENT message, the simulator's
\* result for those arguments
C11_SendAndReply ==
    /\ (Len(calls') = Len(calls) + 1 /\ calls'[Len(calls')].route = "SIM") =>
          LET c == calls'[Len(calls')] IN
          /\ c.scenario = activeScenario
          /\ c.nSim = 0
          /\ transmissionVectors' =
                Append(transmissionVectors,
                       [id |-> OperatorId(c.msg), origin |-> "OPERATOR",
                        payload |-> c.input])
    /\ \A i \in SimCalls :
          (calls[i].pc # "done" /\ calls'[i].pc = "done") =>
              transmissionVectors' =
                  Append(transmissionVectors,
                         [id |-> SyntheticId(i), origin |-> "SYNTHETIC_AGENT",
                          payload |-> "SIM[" \o calls[i].scenario \o "]: "
                                          \o calls[i].input])

\* C11: with the live channel unavailable, a message with text t sent while
\* scenario s is active causes exactly one call of the offline simulator,
\* with the arguments (s.id, t), and its result is appended as one
\* SYNTHETIC_AGENT message, after the OPERATOR message carrying t.
C11_OfflineReplyFromSimulator ==
    [](C11_OneSimulatorCall) /\ [][C11_SendAndReply]_vars

\* a simulated reply given after the scenario was changed under it: the
\* simulator still got the scenario of the time the message was sent
C11_Witness ==
    /\ \E i \in SimCalls :
          /\ calls[i].pc = "done"
          /\ calls[i].scenario # activeScenario
          /\ PositionOf(transmissionVectors, SyntheticId(i)) > 0
    /\ \E i \in SimCalls :
          /\ calls[i].pc = "done"
          /\ PositionOf(transmissionVectors, OperatorId(i)) > 0
          /\ PositionOf(transmissionVectors, SyntheticId(i)) =
                PositionOf(transmissionVectors, OperatorId(i)) + 1

---------------------------------------------------------------------------
(* Properties of the breaker across requests *)

\* what a request has used of its retry budget
RetryState(c) == <<c.attempts, c.nRemote, c.waits>>

\* the retry state of a live call is a function of its own failures only
C15_OwnBudget ==
    \A i \in LiveCalls :
        LET c == calls[i] IN
        /\ c.attempts <= M
        /\ c.pc = "remote" => c.nRemote = c.attempts + 1
        /\ c.pc = "backoff" =>
              (c.nRemote = c.attempts /\ Len(c.waits) = c.attempts - 1)
        /\ c.pc = "done" =>
              Len(c.waits) = IF c.attempts < M THEN c.attempts ELSE M - 1
        /\ \A k \in 1..Len(c.waits) : c.waits[k] = Pow2(k) * 1000

\* a new live call starts at its first attempt whatever the calls before it
\* did, and a step of one call leaves the retry state of the others alone
C15_FreshAndSeparate ==
    /\ (Len(calls') = Len(calls) + 1 /\ calls'[Len(calls')].route = "LIVE") =>
          LET c == calls'[Len(calls')] IN
          /\ c.attempts = 0 /\ c.nRemote = 1 /\ c.waits = << >>
          /\ c.pc = "remote"
    /\ \A i, j \in 1..Len(calls) :
          (i # j /\ RetryState(calls'[i]) # RetryState(calls[i])) =>
              (/\ RetryState(calls'[j]) = RetryState(calls[j])
               /\ calls'[j].pc = calls[j].pc
               /\ calls'[j].result = calls[j].result)

\* C15: the breaker keeps no state across requests: the outcome and the
\* attempt count of one executeDeepThought call do not affect a later call;
\* after a call that ended breaker-open the next call starts at attempt 1
\* with its full budget of M attempts and the same backoff sequence, also
\* when calls overlap.
C15_BreakerStateless == [](C15_OwnBudget) /\ [][C15_FreshAndSeparate]_vars

\* a call that ended breaker-open, then a second live call, sent after the
\* marker was appended, that used all MaxM attempts with the same waits
C15_Witness ==
    /\ M = MaxM
    /\ Len(calls) = 2
    /\ calls[1].route = "LIVE" /\ calls[1].result = CIRCUIT_BREAKER_ACTIVATED
    /\ calls[1].pc = "done"
    /\ calls[2].route = "LIVE"
    /\ \E j \in 1..Len(calls[2].history) :
          calls[2].history[j].payload = CIRCUIT_BREAKER_ACTIVATED
    /\ calls[2].nRemote = M
    /\ calls[2].waits = calls[1].waits
    /\ Len(calls[2].waits) = M - 1

---------------------------------------------------------------------------
(* Properties of the scenario change as a session boundary *)

\* C18 as stated: the transcript only holds messages sent after the last
\* scenario change: a synthetic reply, live or simulated, is in it only
\* behind the OPERATOR message it answers, never as the reply to a message
\* of the session before.
C18_HardSessionBoundary ==
    \A k \in 1..Len(transmissionVectors) :
        Synthetic(transmissionVectors[k]) =>
            \E j \in 1..(k - 1) :
                /\ transmissionVectors[j].origin = "OPERATOR"
                /\ transmissionVectors[j].id = transmissionVectors[k].id - 1

---------------------------------------------------------------------------
(* Every message is answered *)

\* the synthetic messages appended by a step: the tail of the new
\* transcript behind the old one (and behind the OPERATOR message, in a
\* step that sends)
AppendedSynthetic ==
    IF Len(transmissionVectors') > Len(transmissionVectors)
    THEN {k \in (Len(transmissionVectors) + 1)..Len(transmissionVectors') :
             Synthetic(transmissionVectors'[k])}
    ELSE {}

\* the calls that return in a step
Returning ==
    {i \in 1..Len(calls') :
        /\ calls'[i].pc = "done"
        /\ (i > Len(calls) \/ calls[i].pc # "done")}

\* a step appends a synthetic message exactly for the call that returns in
\* it, with the result of that call; a call that has returned stays so
C20_OneAnswerPerCall ==
    /\ Cardinality(Returning) <= 1
    /\ Cardinality(AppendedSynthetic) = Cardinality(Returning)
    /\ \A i \in Returning :
          LET m == transmissionVectors'[Len(transmissionVectors')] IN
          /\ Synthetic(m)
          /\ m.id = SyntheticId(i)
          /\ m.payload = calls'[i].result
          /\ calls'[i].route = "LIVE" =>
                (calls'[i].nRemote >= 1 /\ calls'[i].nRemote <= M)
          /\ calls'[i].route = "SIM" => calls'[i].elapsed = 1500
    /\ \A i \in 1..Len(calls) :
          calls[i].pc = "done" => calls'[i] = calls[i]

\* C20: if every remote call settles and every timer fires, every operator
\* message is eventually answered, and by exactly one SYNTHETIC_AGENT
\* message appended by addSyntheticResponse: on the live route after at
\* most M attempts, on the offline route after the 1.5 s timer.
C20_EveryMessageAnswered ==
    /\ \A i \in 1..MaxMsgs :
          (Len(calls) >= i) ~> (Len(calls) >= i /\ calls[i].pc = "done")
    /\ [][C20_OneAnswerPerCall]_vars

\* all messages answered: one through MaxM attempts, one by the simulator
C20_Witness ==
    /\ M = MaxM
    /\ Len(calls) = MaxMsgs
    /\ \A i \in 1..Len(calls) : calls[i].pc = "done"
    /\ \E i \in LiveCalls : calls[i].nRemote = M /\ Succeeded(calls[i])
    /\ \E i \in SimCalls : calls[i].elapsed = 1500

---------------------------------------------------------------------------
(* Properties of the report generation *)

\* C12 as stated: report generation is all-or-nothing: what it returns has
\* all six fields and a grade in {S, A, B, C, F}; for no response of the
\* remote model (an empty one, valid JSON of another shape) does it return
\* a report with fields missing.
C12_ReportAllOrNothing ==
    report.pc = "returned" =>
        /\ report.value.fields = ReportFields
        /\ report.value.overallGrade \in Grades

\* C13 as stated: report generation goes through the retry mechanism of the
\* advisory requests: it fails for transport reasons only after M attempts,
\* so a remote call that fails once and would then succeed yields a report.
C13_ReportRetriesLikeAdvisory ==
    (report.pc = "thrown" /\ report.rejected) => report.nRemote = M

\* C14 as stated: aggregating an empty metric window gives zero for the
\* mean confidence, the peak speaking rate and the mean hesitation; for a
\* window of n > 0 samples each mean is the sum over n and the peak is the
\* largest speaking rate.
C14_AggregateOfWindow ==
    report.pc # "idle" =>
        LET t == report.telemetry
            n == Len(report.metrics)
        IN  /\ n = 0 =>
                  /\ t.avgConfidence.num = 0
                  /\ t.avgHesitation.num = 0
                  /\ t.maxVelocity = Finite(0)
            /\ n > 0 =>
                  /\ t.avgConfidence =
                        [num |-> ReduceSum(ConfidenceScores(report.metrics)),
                         den |-> n]
                  /\ t.avgHesitation =
                        [num |-> ReduceSum(HesitationMarkers(report.metrics)),
                         den |-> n]
                  /\ t.maxVelocity.finite
                  /\ \E k \in 1..n :
                        report.metrics[k].verbalVelocity = t.maxVelocity.v
                  /\ \A k \in 1..n :
                        report.metrics[k].verbalVelocity <= t.maxVelocity.v

---------------------------------------------------------------------------
(* Properties of the latency probe *)

\* a probe makes its one remote call, and what it returns is -1 exactly
\* when that call failed, else the time the call took
C17_OneCallOneResult ==
    \A k \in 1..Len(probes) :
        LET p == probes[k] IN
        /\ p.nRemote = 1
        /\ p.pc \in {"remote", "done"}
        /\ p.pc = "remote" => ~p.failed
        /\ p.pc = "done" =>
              /\ (p.result = -1) <=> p.failed
              /\ ~p.failed => (p.result >= 0 /\ p.result = p.elapsed)

\* a probe that settles leaves every advisory request as it is, and a step
\* of an advisory request leaves every probe as it is
C17_ApartFromRequests ==
    /\ (\E k \in 1..Len(probes) : probes'[k].pc # probes[k].pc) =>
          calls' = calls
    /\ (\/ Len(calls') # Len(calls)
        \/ \E i \in 1..Len(calls) :
              RetryState(calls'[i]) # RetryState(calls[i])) =>
          probes' = probes

\* C17: measureLatency makes exactly one remote call, without retry, and
\* never throws: it returns -1 if and only if that call fails, otherwise the
\* non-negative time the call took; it neither reads nor changes the retry
\* state of an advisory request.
C17_ProbeIsOneShot ==
    [](C17_OneCallOneResult) /\ [][C17_ApartFromRequests]_vars

\* a failed probe and a later one that took a time step, with an advisory
\* request in its backoff wait
C17_Witness ==
    /\ Len(probes) = 2
    /\ probes[1].pc = "done" /\ probes[1].failed /\ probes[1].result = -1
    /\ probes[2].pc = "done" /\ ~probes[2].failed
    /\ probes[2].result = TimeStep
    /\ networkLatency = TimeStep
    /\ \E i \in LiveCalls : calls[i].pc = "backoff" /\ calls[i].attempts >= 1

---------------------------------------------------------------------------
(* Properties of a session without credentials *)

\* without an API key there is no service, no probe and no interval timer,
\* and every message is the simulator's: no remote call, a pending 1.5 s
\* timer or the simulated reply
C16_OfflineOnly ==
    apiKey = "" =>
        /\ ~deepThinkServiceRef
        /\ probes = << >>
        /\ intervals = << >>
        /\ networkLatency = -1
        /\ \A i \in 1..Len(calls) :
              /\ calls[i].route = "SIM"
              /\ calls[i].nRemote = 0
              /\ calls[i].pc \in {"timer", "done"}
              /\ calls[i].pc = "timer" =>
                    calls[i].timer + calls[i].elapsed = 1500
              /\ calls[i].pc = "done" =>
                    (calls[i].nSim = 1 /\ calls[i].elapsed = 1500)

\* without an API key, the step that ends a call appends its synthetic
\* reply
C16_SimulatedReply ==
    apiKey = "" =>
        \A i \in 1..Len(calls) :
            (calls[i].pc # "done" /\ calls'[i].pc = "done") =>
                transmissionVectors' =
                    addSyntheticResponse(transmissionVectors, i,
                                         calls'[i].result)

\* C16: with an empty API key the Advisory Client is never initialized and
\* no latency probe is scheduled; every user message goes to the offline
\* simulator and still gets its synthetic response, and the message path
\* issues no remote request.
C16_NoKeyNoRemote == [](C16_OfflineOnly) /\ [][C16_SimulatedReply]_vars

\* no API key, the live link open and without error, the effect run twice:
\* the message was answered by the simulator
C16_Witness ==
    /\ apiKey = ""
    /\ isConnectionActive /\ connectionError = NoError
    /\ lifecycle.active /\ lifecycle.runs = MaxEffectRuns
    /\ \E i \in SimCalls :
          /\ calls[i].pc = "done"
          /\ calls[i].history = << >>
          /\ \E j \in 1..Len(transmissionVectors) :
                /\ Synthetic(transmissionVectors[j])
                /\ transmissionVectors[j].id = SyntheticId(i)

---------------------------------------------------------------------------
(* Properties of the probe's timer *)

\* at most one interval timer is set, none after the cleanup; the backoff
\* waits of the advisory requests are what they are without the probe
C19_OneTimer ==
    /\ Len(intervals) <= 1
    /\ ~lifecycle.active => intervals = << >>
    /\ \A i \in LiveCalls :
          \A k \in 1..Len(calls[i].waits) :
              calls[i].waits[k] = Pow2(k) * 1000

\* no probe starts after the cleanup, a probe starts when its timer is due
\* or when the effect runs, and a probe that was in flight at the cleanup
\* does not set the displayed latency
C19_NoLateEffect ==
    /\ Len(probes') > Len(probes) =>
          /\ lifecycle'.active
          /\ \/ lifecycle'.runs = lifecycle.runs + 1
             \/ \E k \in 1..Len(intervals) : intervals[k].timer = 0
    /\ \A k \in 1..Len(probes) :
          (probes[k].torn /\ probes'[k].pc # probes[k].pc) =>
              networkLatency' = networkLatency

\* C19 as stated: the periodic latency probe is cancelled cleanly: at most
\* one interval timer is active at any time; after the effect cleanup no
\* timer remains, no new probe is started, and the displayed latency is no
\* longer updated by a probe that was in flight at the cleanup; the probe
\* runs next to the message handling without delaying the backoff waits or
\* being delayed by them.
C19_ProbeCancelledCleanly ==
    [](C19_OneTimer) /\ [][C19_NoLateEffect]_vars

---------------------------------------------------------------------------
(* Properties of the cognitive state *)

\* C21 as stated: the cognitive state is THINKING whenever at least one
\* operator message still awaits its synthetic response, and IDLE only
\* when no response is pending.
C21_ThinkingIffPending ==
    /\ cognitiveState \in {"IDLE", "THINKING"}
    /\ (cognitiveState = "THINKING") <=> (InFlight # {})

============================================================================
